---- MODULE Spec2Model ----
(***************************************************************************)
(* Model of the download path of the viddown backend:                      *)
(*   handlers/download.go  DownloadHandler.ServeHTTP                       *)
(*   services              YtDlpService.DownloadToFile, Semaphore          *)
(* Each request slot is one goroutine serving GET /api/download.  The      *)
(* external yt-dlp process, the wall clock, the scratch directory          *)
(* /tmp/viddown and the request context are the environment.               *)
(***************************************************************************)
EXTENDS Integers, FiniteSets, Sequences, TLC

\* ---------------------------------------------------------------- bounds
NumReqs  == 2    \* request goroutines; also the largest MAX_CONCURRENT
MaxFiles == 2    \* distinct file names the tool may write under a prefix
MaxRaw     == 3  \* raw encodings in the output of one analysis
MaxFormats == 5  \* descriptors handed to GetBestFormats on its own

Reqs   == 1..NumReqs
Stamps == 1..NumReqs    \* readings of time.Now().UnixNano(), up to equality
Names  == 1..MaxFiles   \* file names, in the order filepath.Glob sorts them
Paths  == Stamps \X Names

NoStamp == 0        \* DownloadToFile has not read the clock
NoFile  == 0        \* DownloadToFile has not returned a path

\* what the request carries (download.go:33-53, validator.go:36-51)
Inputs == {"bad_method", "no_url", "bad_encoding",
           "invalid_url", "unsupported_url", "ok"}

\* return statements of ServeHTTP
ReturnSites == {"MethodNotAllowed", "UrlRequired", "InvalidEncoding",
                "ServerBusy", "MkdirFailed", "DownloadFailed",
                "OpenFailed", "StatFailed", "StreamFailed", "Complete"}

\* return statements taken before the gate is consulted
InputErrorSites == {"MethodNotAllowed", "UrlRequired", "InvalidEncoding"}

VARIABLES
    capacity,   \* cfg.MaxConcurrent handed to NewSemaphore
    held,       \* permits currently held in the semaphore
    tempDir,    \* /tmp/viddown: the paths <<prefix, name>> that exist
    pc,         \* per request: position of the handler
    url,        \* per request: validity of the decoded URL
    canceled,   \* per request: r.Context() is done
    ts,         \* per request: timestamp prefix of DownloadToFile
    proc,       \* per request: state of the external process
    tempFile,   \* per request: name returned by DownloadToFile
    status,     \* per request: HTTP status the handler answered with
    acq,        \* per request: successful TryAcquire calls
    rel,        \* per request: Release calls
    removes,    \* per request: deferred os.Remove(tempFile) calls
    ytFormats,  \* analysis: info.Formats as the tool printed them
    formats,    \* analysis: the descriptors parseFormats returned
    best,       \* analysis: what GetBestFormats returned
    simplified, \* analysis: simplifiedFormats, the list of the response
    apc,        \* analysis: position of AnalyzeHandler.ServeHTTP
    filename,   \* headers: the name DownloadToFile returned with the file
    mimeTypes,  \* headers: the extensions the mime package has a type for
    contentType \* headers: the Content-Type header set by ServeHTTP

\* the download path, the analysis and the response headers
dlVars == <<capacity, held, tempDir, pc, url, canceled, ts, proc, tempFile,
            status, acq, rel, removes>>
anVars == <<ytFormats, formats, best, simplified, apc>>
hdVars == <<filename, mimeTypes, contentType>>

vars == <<dlVars, anVars, hdVars>>

\* ------------------------------------------------------------ semaphore
\* Semaphore.TryAcquire: a permit is granted iff one is free
SemTryAcquire(h, cap) == h < cap

\* Semaphore.Release: one permit goes back
SemRelease(h) == h - 1

\* Semaphore.Available
SemAvailable(h, cap) == cap - h

\* ------------------------------------------------------------- helpers
\* the busy branch falls through instead of returning
Busy_NoReturn(got) == FALSE

\* if !h.semaphore.TryAcquire() { ... 503; return }
Busy(got) == ~got

\* every URL is accepted
ValidateURL_AcceptAll(u) == TRUE

\* ValidateURL returns a nil error
ValidateURL(u) == u = "ok"

\* filepath.Glob(tempDir/<stamp>_*): names present under the prefix
Glob(dir, stamp) == {n \in Names : <<stamp, n>> \in dir}

\* matches[0]: Glob returns its matches sorted
FirstMatch(ms) == CHOOSE n \in ms : \A m \in ms : n <= m

\* len(matches) == 0 is the only count DownloadToFile refuses
NotFound(ms) == ms = {}

\* os.Remove(path)
Remove(dir, stamp, n) == dir \ {<<stamp, n>>}

\* the status written by http.Error at each return; a failed io.Copy comes
\* after the headers of the 200 answer
StatusOf(site) ==
    CASE site = "MethodNotAllowed" -> 405
      [] site \in {"UrlRequired", "InvalidEncoding"} -> 400
      [] site = "ServerBusy" -> 503
      [] site \in {"MkdirFailed", "DownloadFailed", "OpenFailed",
                   "StatFailed"} -> 500
      [] OTHER -> 200

\* Release called at the end of the function instead of deferred
DeferredRelease_NotDeferred(site) == site = "Complete"

\* the defer registered only after os.MkdirAll
DeferredRelease_AfterMkdir(site) ==
    site \in {"DownloadFailed", "OpenFailed", "StatFailed", "StreamFailed",
              "Complete"}

\* the defer registered before the TryAcquire check
DeferredRelease_BeforeGate(site) ==
    site \in {"ServerBusy", "MkdirFailed", "DownloadFailed", "OpenFailed",
              "StatFailed", "StreamFailed", "Complete"}

\* defer h.semaphore.Release() is registered at download.go:68
DeferredRelease(site) ==
    site \in {"MkdirFailed", "DownloadFailed", "OpenFailed", "StatFailed",
              "StreamFailed", "Complete"}

\* os.Remove called at the end of the function instead of deferred
DeferredRemove_NotDeferred(site) == site = "Complete"

\* defer os.Remove(tempFile) is registered at download.go:90
DeferredRemove(site) ==
    site \in {"OpenFailed", "StatFailed", "StreamFailed", "Complete"}

\* the process is started with exec.Command: a done context leaves it alone
OutputReturns_NoKill(p, end) == p

\* cmd.Output returns once the process of exec.CommandContext has ended:
\* p is its state before, end the way it ended
OutputReturns(p, end) == end

\* The handler returns at `site`; dir is the directory as the handler's
\* body left it and f the name DownloadToFile returned (NoFile if none).
\* The deferred calls run: os.Remove(tempFile), then semaphore.Release().
Return(r, site, dir, f) ==
    /\ pc' = [pc EXCEPT ![r] = "done"]
    /\ status' = [status EXCEPT ![r] = StatusOf(site)]
    /\ IF DeferredRemove(site)
         THEN /\ tempDir' = Remove(dir, ts[r], f)
              /\ removes' = [removes EXCEPT ![r] = @ + 1]
         ELSE /\ tempDir' = dir
              /\ removes' = removes
    /\ IF DeferredRelease(site)
         THEN /\ held' = SemRelease(held)
              /\ rel' = [rel EXCEPT ![r] = @ + 1]
         ELSE /\ held' = held
              /\ rel' = rel
    /\ url' = [url EXCEPT ![r] = "none"]
    /\ canceled' = [canceled EXCEPT ![r] = FALSE]
    /\ ts' = [ts EXCEPT ![r] = NoStamp]
    /\ tempFile' = [tempFile EXCEPT ![r] = NoFile]

\* ---------------------------------------------------------------- strings
\* A Go string is the sequence of its characters; a character outside ASCII
\* is written "U+<code point>".
Digits == <<"0", "1", "2", "3", "4", "5", "6", "7", "8", "9">>

\* the value of a decimal digit, -1 for any other character
DigitVal(c) ==
    IF \E d \in 1..10 : Digits[d] = c
      THEN (CHOOSE d \in 1..10 : Digits[d] = c) - 1
      ELSE -1

RECURSIVE ItoaNat(_)
ItoaNat(n) ==
    IF n < 10 THEN <<Digits[n + 1]>>
    ELSE ItoaNat(n \div 10) \o <<Digits[(n % 10) + 1]>>

\* strconv.Itoa, and the %d verb of fmt.Sprintf
Itoa(n) == IF n < 0 THEN <<"-">> \o ItoaNat(-n) ELSE ItoaNat(n)

RECURSIVE DigitsVal(_)
DigitsVal(s) ==
    IF s = <<>> THEN 0
    ELSE 10 * DigitsVal(SubSeq(s, 1, Len(s) - 1)) + DigitVal(s[Len(s)])

\* strconv.Atoi: an optional sign and at least one digit, nothing else; the
\* values used stay far below the range of int
Atoi(s) ==
    LET signed == s # <<>> /\ s[1] \in {"+", "-"}
        body   == IF signed THEN Tail(s) ELSE s
    IN IF body # <<>> /\ \A i \in 1..Len(body) : DigitVal(body[i]) >= 0
         THEN [err |-> FALSE,
               val |-> IF signed /\ s[1] = "-" THEN -DigitsVal(body)
                       ELSE DigitsVal(body)]
         ELSE [err |-> TRUE, val |-> 0]

\* strings.HasPrefix
HasPrefix(s, prefix) ==
    Len(s) >= Len(prefix) /\ SubSeq(s, 1, Len(prefix)) = prefix

\* strings.HasSuffix
HasSuffix(s, suffix) ==
    Len(s) >= Len(suffix)
    /\ SubSeq(s, Len(s) - Len(suffix) + 1, Len(s)) = suffix

\* strings.TrimSuffix
TrimSuffix(s, suffix) ==
    IF HasSuffix(s, suffix) THEN SubSeq(s, 1, Len(s) - Len(suffix)) ELSE s

\* the %.0f verb of fmt.Sprintf for a non-negative value given in tenths:
\* rounded to the nearest integer, a tie to the even one
FormatFloat0(tenths) ==
    LET q == tenths \div 10
        m == tenths % 10
    IN Itoa(IF m > 5 \/ (m = 5 /\ q % 2 = 1) THEN q + 1 ELSE q)

\* ------------------------------------------------------------- analysis
\* literals of config.go
StrNone      == "none"
StrAudio     == <<"a", "u", "d", "i", "o">>
StrVideo     == <<"v", "i", "d", "e", "o">>
StrVideoOnly == <<"v", "i", "d", "e", "o", "_", "o", "n", "l", "y">>
StrAudioOnly == <<"a", "u", "d", "i", "o", " ", "o", "n", "l", "y">>
StrMp4       == <<"m", "p", "4">>
StrKbps      == <<"k", "b", "p", "s">>
StrDash      == <<"-">>
StrPlus      == <<"+">>
StrP         == <<"p">>

\* fmt.Sprintf("%.0fkbps", f.ABR); ABR is kept in tenths of a kbps
AudioQuality(abr) == FormatFloat0(abr) \o StrKbps

\* fmt.Sprintf("%dp", f.Height)
VideoQuality(height) == Itoa(height) \o StrP

\* the key refers to the identifier instead of the container
Key_ByID(formatType, quality, f) ==
    formatType \o StrDash \o quality \o StrDash \o f.FormatID

\* key := fmt.Sprintf("%s-%s-%s", formatType, quality, f.Ext)
Key(formatType, quality, f) ==
    formatType \o StrDash \o quality \o StrDash \o f.Ext

\* the container check is left out
VideoContainerOK_Any(ext) == TRUE

\* if f.Ext != "mp4" { continue }
VideoContainerOK(ext) == ext = StrMp4

\* parseFormats, the body of the loop up to the key: the kind and quality
\* label of one raw encoding, or skip (a `continue`)
Classify(f) ==
    IF f.FormatID = <<>> THEN [skip |-> TRUE]
    ELSE IF f.VCodec = StrNone /\ f.ACodec # StrNone
      THEN [skip |-> FALSE, formatType |-> StrAudio,
            quality |-> IF f.ABR > 0 THEN AudioQuality(f.ABR) ELSE StrAudio]
    ELSE IF f.VCodec # StrNone
      THEN IF ~VideoContainerOK(f.Ext) THEN [skip |-> TRUE]
           ELSE IF f.Height > 0
             THEN [skip |-> FALSE, formatType |-> StrVideo,
                   quality |-> VideoQuality(f.Height)]
           ELSE IF f.Resolution # <<>> /\ f.Resolution # StrAudioOnly
             THEN [skip |-> FALSE, formatType |-> StrVideo,
                   quality |-> f.Resolution]
           ELSE [skip |-> TRUE]
    ELSE [skip |-> TRUE]

\* parseFormats, one iteration: acc holds `formats` and `seen`
ParseOne(acc, f) ==
    LET c == Classify(f) IN
    IF c.skip THEN acc
    ELSE LET key == Key(c.formatType, c.quality, f) IN
         IF key \in acc.seen THEN acc
         ELSE [seen |-> acc.seen \cup {key},
               formats |-> Append(acc.formats,
                   [ID |-> f.FormatID, Type |-> c.formatType,
                    Quality |-> c.quality, Ext |-> f.Ext,
                    Size |-> f.Filesize])]

RECURSIVE ParseLoop(_, _)
ParseLoop(acc, rest) ==
    IF rest = <<>> THEN acc
    ELSE ParseLoop(ParseOne(acc, Head(rest)), Tail(rest))

\* YtDlpService.parseFormats
parseFormats(yt) == ParseLoop([seen |-> {}, formats |-> <<>>], yt).formats

\* extractBitrate
extractBitrate(quality) ==
    LET a == Atoi(TrimSuffix(quality, StrKbps)) IN
    IF a.err THEN 0 ELSE a.val

\* a later audio of equal bitrate replaces the best one
Better_OrEqual(currentBitrate, bestBitrate) == currentBitrate >= bestBitrate

\* if currentBitrate > bestBitrate { bestAudio = f }
Better(currentBitrate, bestBitrate) == currentBitrate > bestBitrate

\* GetBestFormats, the first loop: the index of bestAudio after formats[1..i],
\* 0 while bestAudio is nil
RECURSIVE BestAudio(_, _)
BestAudio(fs, i) ==
    IF i = 0 THEN 0
    ELSE LET b == BestAudio(fs, i - 1) IN
         IF fs[i].Type # StrAudio THEN b
         ELSE IF b = 0 THEN i
         ELSE IF Better(extractBitrate(fs[i].Quality),
                        extractBitrate(fs[b].Quality)) THEN i
         ELSE b

\* resolutions and resLabels
resolutions == <<360, 480, 720, 1080>>
resLabels(res) ==
    CASE res = 360 -> <<"3", "6", "0", "p">>
      [] res = 480 -> <<"4", "8", "0", "p">>
      [] res = 720 -> <<"7", "2", "0", "p", " ", "H", "D">>
      [] res = 1080 -> <<"1", "0", "8", "0", "p", " ", "F", "u", "l", "l", " ", "H", "D">>

LabelBestAudio == <<"U+041B", "U+0443", "U+0447", "U+0448", "U+0435", "U+0435", " ", "U+0430", "U+0443", "U+0434", "U+0438", "U+043E", " ", "(">>
LabelClose     == <<")">>
LabelMerged    == <<" ", "(", "U+0432", "U+0438", "U+0434", "U+0435", "U+043E", " ", "+", " ", "U+0430", "U+0443", "U+0434", "U+0438", "U+043E", ")">>
LabelVideoOnly == <<" ", "(", "U+0442", "U+043E", "U+043B", "U+044C", "U+043A", "U+043E", " ", "U+0432", "U+0438", "U+0434", "U+0435", "U+043E", ")">>

\* if f.Type == "video" && strings.HasPrefix(f.Quality, strconv.Itoa(res))
TierMatch(f, res) == f.Type = StrVideo /\ HasPrefix(f.Quality, Itoa(res))

\* the inner loop without its break: every match of the tier is used
TierHits_NoBreak(fs, res) ==
    SelectSeq([i \in 1..Len(fs) |-> i], LAMBDA i : TierMatch(fs[i], res))

\* the inner loop with its break: the first match of the tier, if any
TierHits(fs, res) ==
    LET hits == SelectSeq([i \in 1..Len(fs) |-> i],
                          LAMBDA i : TierMatch(fs[i], res))
    IN IF hits = <<>> THEN <<>> ELSE <<Head(hits)>>

\* the identifier is put together the other way round
MergedID_Swapped(videoID, audioID) == audioID \o StrPlus \o videoID

\* ID: f.ID + "+" + bestAudio.ID
MergedID(videoID, audioID) == videoID \o StrPlus \o audioID

\* the size of the audio is left out
MergedSize_VideoOnly(videoSize, audioSize) == videoSize

\* Size: f.Size + bestAudio.Size
MergedSize(videoSize, audioSize) == videoSize + audioSize

\* what the body of the inner loop appends for the match f of tier res
TierOffer(f, res, fs, b) ==
    (IF b # 0
       THEN <<[ID |-> MergedID(f.ID, fs[b].ID), Type |-> StrVideo,
               Quality |-> resLabels(res) \o LabelMerged, Ext |-> StrMp4,
               Size |-> MergedSize(f.Size, fs[b].Size)]>>
       ELSE <<>>)
    \o <<[ID |-> f.ID, Type |-> StrVideoOnly,
          Quality |-> resLabels(res) \o LabelVideoOnly, Ext |-> f.Ext,
          Size |-> f.Size]>>

RECURSIVE TierOffers(_, _, _, _)
TierOffers(hits, res, fs, b) ==
    IF hits = <<>> THEN <<>>
    ELSE TierOffer(fs[Head(hits)], res, fs, b)
         \o TierOffers(Tail(hits), res, fs, b)

RECURSIVE Tiers(_, _, _)
Tiers(k, fs, b) ==
    IF k > Len(resolutions) THEN <<>>
    ELSE TierOffers(TierHits(fs, resolutions[k]), resolutions[k], fs, b)
         \o Tiers(k + 1, fs, b)

\* YtDlpService.GetBestFormats
GetBestFormats(fs) ==
    LET b == BestAudio(fs, Len(fs)) IN
    (IF b # 0
       THEN <<[ID |-> fs[b].ID, Type |-> StrAudio,
               Quality |-> LabelBestAudio \o fs[b].Quality \o LabelClose,
               Ext |-> fs[b].Ext, Size |-> fs[b].Size]>>
       ELSE <<>>)
    \o Tiers(1, fs, b)

\* the fallback is left out
Simplified_NoFallback(bestFormats, fs) == bestFormats

\* simplifiedFormats of AnalyzeHandler.ServeHTTP (download.go:243-246)
Simplified(bestFormats, fs) ==
    IF Len(bestFormats) = 0 THEN fs ELSE bestFormats

\* ------------------------------------------------------ raw encodings
\* ytdlpFormat records (config.go:94-104) the analysis is run on
\* the 1080p mp4 video of the example
Raw137 ==
    [FormatID |-> <<"1", "3", "7">>, Ext |-> <<"m", "p", "4">>, Resolution |-> <<"1", "9", "2", "0", "x", "1", "0", "8", "0">>,
     VCodec |-> "avc1", ACodec |-> "none", Filesize |-> 4, ABR |-> 0,
     Height |-> 1080]

\* the 128 kbps audio of the example
Raw140 ==
    [FormatID |-> <<"1", "4", "0">>, Ext |-> <<"m", "4", "a">>, Resolution |-> <<"a", "u", "d", "i", "o", " ", "o", "n", "l", "y">>,
     VCodec |-> "none", ACodec |-> "mp4a", Filesize |-> 1, ABR |-> 1280,
     Height |-> 0]

\* the 160 kbps webm audio of the example
Raw251 ==
    [FormatID |-> <<"2", "5", "1">>, Ext |-> <<"w", "e", "b", "m">>, Resolution |-> <<"a", "u", "d", "i", "o", " ", "o", "n", "l", "y">>,
     VCodec |-> "none", ACodec |-> "opus", Filesize |-> 2, ABR |-> 1600,
     Height |-> 0]

\* a second 1080p mp4 video: the triple of 137
Raw22 ==
    [FormatID |-> <<"2", "2">>, Ext |-> <<"m", "p", "4">>, Resolution |-> <<"1", "9", "2", "0", "x", "1", "0", "8", "0">>,
     VCodec |-> "avc1", ACodec |-> "mp4a", Filesize |-> 5, ABR |-> 0,
     Height |-> 1080]

\* a 1080p video in another container
Raw248 ==
    [FormatID |-> <<"2", "4", "8">>, Ext |-> <<"w", "e", "b", "m">>, Resolution |-> <<"1", "9", "2", "0", "x", "1", "0", "8", "0">>,
     VCodec |-> "vp9", ACodec |-> "none", Filesize |-> 3, ABR |-> 0,
     Height |-> 1080]

\* tier 360
Raw18 ==
    [FormatID |-> <<"1", "8">>, Ext |-> <<"m", "p", "4">>, Resolution |-> <<"6", "4", "0", "x", "3", "6", "0">>,
     VCodec |-> "avc1", ACodec |-> "mp4a", Filesize |-> 2, ABR |-> 0,
     Height |-> 360]

\* tier 480
Raw135 ==
    [FormatID |-> <<"1", "3", "5">>, Ext |-> <<"m", "p", "4">>, Resolution |-> <<"8", "5", "4", "x", "4", "8", "0">>,
     VCodec |-> "avc1", ACodec |-> "none", Filesize |-> 2, ABR |-> 0,
     Height |-> 480]

\* tier 720
Raw136 ==
    [FormatID |-> <<"1", "3", "6">>, Ext |-> <<"m", "p", "4">>, Resolution |-> <<"1", "2", "8", "0", "x", "7", "2", "0">>,
     VCodec |-> "avc1", ACodec |-> "none", Filesize |-> 3, ABR |-> 0,
     Height |-> 720]

\* a height of no tier
Raw133 ==
    [FormatID |-> <<"1", "3", "3">>, Ext |-> <<"m", "p", "4">>, Resolution |-> <<"4", "2", "6", "x", "2", "4", "0">>,
     VCodec |-> "avc1", ACodec |-> "none", Filesize |-> 1, ABR |-> 0,
     Height |-> 240]

\* no codec tags, no height: the resolution string is the label
RawV ==
    [FormatID |-> <<"v">>, Ext |-> <<"m", "p", "4">>, Resolution |-> <<"7", "2", "0", "x", "1", "2", "8", "0">>,
     VCodec |-> "", ACodec |-> "", Filesize |-> 0, ABR |-> 0,
     Height |-> 0]

\* a video entry whose resolution is the sentinel
RawS ==
    [FormatID |-> <<"s">>, Ext |-> <<"m", "p", "4">>, Resolution |-> <<"a", "u", "d", "i", "o", " ", "o", "n", "l", "y">>,
     VCodec |-> "h264", ACodec |-> "none", Filesize |-> 0, ABR |-> 0,
     Height |-> 0]

\* an audio of unknown bitrate
Raw139 ==
    [FormatID |-> <<"1", "3", "9">>, Ext |-> <<"m", "4", "a">>, Resolution |-> <<"a", "u", "d", "i", "o", " ", "o", "n", "l", "y">>,
     VCodec |-> "none", ACodec |-> "mp4a", Filesize |-> 1, ABR |-> 0,
     Height |-> 0]

\* 128.4 kbps: the label of 140
Raw141 ==
    [FormatID |-> <<"1", "4", "1">>, Ext |-> <<"m", "4", "a">>, Resolution |-> <<"a", "u", "d", "i", "o", " ", "o", "n", "l", "y">>,
     VCodec |-> "none", ACodec |-> "mp4a", Filesize |-> 3, ABR |-> 1284,
     Height |-> 0]

\* 128 kbps in webm: the bitrate of 140
Raw250 ==
    [FormatID |-> <<"2", "5", "0">>, Ext |-> <<"w", "e", "b", "m">>, Resolution |-> <<"a", "u", "d", "i", "o", " ", "o", "n", "l", "y">>,
     VCodec |-> "none", ACodec |-> "opus", Filesize |-> 1, ABR |-> 1280,
     Height |-> 0]

\* no identifier
RawNoID ==
    [FormatID |-> <<>>, Ext |-> <<"m", "4", "a">>, Resolution |-> <<"a", "u", "d", "i", "o", " ", "o", "n", "l", "y">>,
     VCodec |-> "none", ACodec |-> "mp4a", Filesize |-> 1, ABR |-> 1280,
     Height |-> 0]

\* a storyboard: neither track
RawSb ==
    [FormatID |-> <<"s", "b", "0">>, Ext |-> <<"m", "h", "t", "m", "l">>, Resolution |-> <<"4", "8", "x", "2", "7">>,
     VCodec |-> "none", ACodec |-> "none", Filesize |-> 0, ABR |-> 0,
     Height |-> 0]

RawSet ==
    {Raw137, Raw140, Raw251, Raw22, Raw248, Raw18,
     Raw135, Raw136, Raw133, RawV, RawS, Raw139,
     Raw141, Raw250, RawNoID, RawSb}

\* the raw encodings of the example of spec section 8
Example == <<Raw137, Raw140, Raw251>>

\* -------------------------------------------------------------- headers
StrDot    == <<".">>
StrDotMp4 == <<".", "m", "p", "4">>

\* the lower-case form of the upper-case letters that occur in the names
ToLower(c) ==
    CASE c = "M" -> "m"
      [] c = "P" -> "p"
      [] OTHER -> c

\* strings.ToLower
Lower(s) == [i \in 1..Len(s) |-> ToLower(s[i])]

\* filepath.Ext: the suffix from the last dot of the last path element
Ext(path) ==
    LET dots == {i \in 1..Len(path) :
                   /\ path[i] = "."
                   /\ \A j \in i..Len(path) : path[j] # "/"}
    IN IF dots = {} THEN <<>>
       ELSE SubSeq(path, CHOOSE i \in dots : \A j \in dots : j <= i,
                   Len(path))

\* the types a mime table can hold for the extensions of the names; which
\* of them it holds depends on the host (the built-in table of the mime
\* package has none of the three)
KnownTypes ==
    {<<<<".", "m", "p", "4">>, "video/mp4">>,
     <<<<".", "w", "e", "b", "m">>, "video/webm">>,
     <<<<".", "m", "4", "a">>, "audio/mp4">>}

\* the table's entry for an extension, "" if there is none
Lookup(table, ext) ==
    IF \E e \in table : e[1] = ext
      THEN (CHOOSE e \in table : e[1] = ext)[2]
      ELSE ""

\* mime.TypeByExtension: looked up as given, then in lower case
TypeByExtension(table, ext) ==
    IF Lookup(table, ext) # "" THEN Lookup(table, ext)
    ELSE Lookup(table, Lower(ext))

\* an unmapped extension is given the type of the mp4 container
Unmapped_Mp4 == "video/mp4"

\* if contentType == "" { contentType = "application/octet-stream" }
Unmapped == "application/octet-stream"

\* an empty extension is left empty
DefaultExt_None(ext) == ext

\* if ext == "" { ext = ".mp4" }
DefaultExt(ext) == IF ext = <<>> THEN StrDotMp4 ELSE ext

\* the Content-Type of ServeHTTP (download.go:113-126)
ContentType(name, table) ==
    LET t == TypeByExtension(table, DefaultExt(Ext(name))) IN
    IF t = "" THEN Unmapped ELSE t

\* names DownloadToFile can return: a title and what follows it
Titles == {<<"a">>, <<"a", ".", "b", " ", "c">>, <<"v", "1", ".", "0">>}
Suffixes == {<<>>, <<".", "m", "p", "4">>, <<".", "M", "P", "4">>, <<".", "w", "e", "b", "m">>, <<".", "m", "4", "a">>,
             <<".", "x", "y", "z">>, <<".">>}
FileNames == {t \o x : t \in Titles, x \in Suffixes}

\* ---------------------------------------------------------------- Init
\* no download request is being served
NoDownload ==
    /\ held = 0
    /\ tempDir = {}
    /\ pc = [r \in Reqs |-> "idle"]
    /\ url = [r \in Reqs |-> "none"]
    /\ canceled = [r \in Reqs |-> FALSE]
    /\ ts = [r \in Reqs |-> NoStamp]
    /\ proc = [r \in Reqs |-> "none"]
    /\ tempFile = [r \in Reqs |-> NoFile]
    /\ status = [r \in Reqs |-> 0]
    /\ acq = [r \in Reqs |-> 0]
    /\ rel = [r \in Reqs |-> 0]
    /\ removes = [r \in Reqs |-> 0]

\* no analysis is being served
NoAnalysis ==
    /\ ytFormats = <<>>
    /\ formats = <<>>
    /\ best = <<>>
    /\ simplified = <<>>
    /\ apc = "off"

\* no response headers are being written
NoHeaders ==
    /\ filename = <<>>
    /\ mimeTypes = {}
    /\ contentType = "unset"

Init ==
    /\ capacity \in 1..NumReqs
    /\ NoDownload
    /\ NoAnalysis
    /\ NoHeaders

\* ------------------------------------------------------------- actions
\* ServeHTTP up to the gate (download.go:32-68): method, url parameter,
\* decoding, then TryAcquire.
ServeHTTP(r) ==
    /\ pc[r] = "idle"
    /\ \E in \in Inputs :
         IF in \in {"bad_method", "no_url", "bad_encoding"}
           THEN /\ Return(r, CASE in = "bad_method" -> "MethodNotAllowed"
                               [] in = "no_url" -> "UrlRequired"
                               [] OTHER -> "InvalidEncoding",
                          tempDir, NoFile)
                /\ UNCHANGED acq
           ELSE LET got == SemTryAcquire(held, capacity) IN
                IF Busy(got)
                  THEN /\ Return(r, "ServerBusy", tempDir, NoFile)
                       /\ UNCHANGED acq
                  ELSE /\ held' = IF got THEN held + 1 ELSE held
                       /\ acq' = [acq EXCEPT ![r] = IF got THEN @ + 1 ELSE @]
                       /\ pc' = [pc EXCEPT ![r] = "admitted"]
                       /\ url' = [url EXCEPT ![r] = in]
                       /\ UNCHANGED <<tempDir, canceled, ts, tempFile,
                                      status, rel, removes>>
    /\ UNCHANGED <<capacity, proc>>
    /\ UNCHANGED <<anVars, hdVars>>

\* os.MkdirAll fails (download.go:77-81)
MkdirFails(r) ==
    /\ pc[r] = "admitted"
    /\ Return(r, "MkdirFailed", tempDir, NoFile)
    /\ UNCHANGED <<capacity, acq, proc>>
    /\ UNCHANGED <<anVars, hdVars>>

\* DownloadToFile: ValidateURL refuses the url (config.go:209-212)
ValidateFails(r) ==
    /\ pc[r] = "admitted"
    /\ ~ValidateURL(url[r])
    /\ Return(r, "DownloadFailed", tempDir, NoFile)
    /\ UNCHANGED <<capacity, acq, proc>>
    /\ UNCHANGED <<anVars, hdVars>>

\* DownloadToFile: the process cannot be started (binary missing, context
\* already done): cmd.Output fails at once (config.go:241-247)
StartFails(r) ==
    /\ pc[r] = "admitted"
    /\ ValidateURL(url[r])
    /\ Return(r, "DownloadFailed", tempDir, NoFile)
    /\ UNCHANGED <<capacity, acq, proc>>
    /\ UNCHANGED <<anVars, hdVars>>

\* a job in flight has read t from the clock
InFlight(t) == \E q \in Reqs : ts[q] = t

\* the least reading under which nothing is in flight and nothing exists
FreshStamp ==
    CHOOSE t \in Stamps :
      /\ ~InFlight(t) /\ Glob(tempDir, t) = {}
      /\ \A u \in 1..(t - 1) : InFlight(u) \/ Glob(tempDir, u) # {}

\* time.Now().UnixNano() (config.go:215), up to equality of readings: the
\* reading of a job still in flight, or one no job has had.  The clock is
\* taken not to step back to the reading of a job that has finished.
Now == {t \in Stamps : InFlight(t)} \cup {FreshStamp}

\* DownloadToFile: the prefix is taken from the clock and the process is
\* started (config.go:215-241)
Start(r) ==
    /\ pc[r] = "admitted"
    /\ ValidateURL(url[r])
    /\ \E t \in Now : ts' = [ts EXCEPT ![r] = t]
    /\ proc' = [proc EXCEPT ![r] = "running"]
    /\ pc' = [pc EXCEPT ![r] = "wait"]
    /\ UNCHANGED <<capacity, held, tempDir, url, canceled, tempFile,
                   status, acq, rel, removes>>
    /\ UNCHANGED <<anVars, hdVars>>

\* the running process creates a path under its -o template
ProcWrite(r) ==
    /\ pc[r] = "wait"
    /\ proc[r] = "running"
    /\ \E n \in Names \ Glob(tempDir, ts[r]) :
         tempDir' = tempDir \cup {<<ts[r], n>>}
    /\ UNCHANGED <<capacity, held, pc, url, canceled, ts, proc, tempFile,
                   status, acq, rel, removes>>
    /\ UNCHANGED <<anVars, hdVars>>

\* the client disconnects or chi's Timeout fires while DownloadToFile waits
\* for the process: r.Context() is done.  Before the process is started a
\* done context is StartFails; after DownloadToFile has returned the
\* handler no longer reads the context and a gone client is StreamFailed.
Cancel(r) ==
    /\ pc[r] = "wait"
    /\ ~canceled[r]
    /\ canceled' = [canceled EXCEPT ![r] = TRUE]
    /\ UNCHANGED <<capacity, held, tempDir, pc, url, ts, proc, tempFile,
                   status, acq, rel, removes>>
    /\ UNCHANGED <<anVars, hdVars>>

\* exec.CommandContext kills the process of a done context; cmd.Output
\* returns the error, DownloadToFile returns it (config.go:242-247) and
\* ServeHTTP answers 500 (download.go:85-89)
Kill(r) ==
    /\ pc[r] = "wait"
    /\ proc[r] = "running"
    /\ canceled[r]
    /\ proc' = [proc EXCEPT ![r] = OutputReturns(@, "killed")]
    /\ Return(r, "DownloadFailed", tempDir, NoFile)
    /\ UNCHANGED <<capacity, acq>>
    /\ UNCHANGED <<anVars, hdVars>>

\* the process exits with a non-zero status: same path as Kill
ExitFail(r) ==
    /\ pc[r] = "wait"
    /\ proc[r] = "running"
    /\ proc' = [proc EXCEPT ![r] = OutputReturns(@, "none")]
    /\ Return(r, "DownloadFailed", tempDir, NoFile)
    /\ UNCHANGED <<capacity, acq>>
    /\ UNCHANGED <<anVars, hdVars>>

\* the process exits with status 0; DownloadToFile globs the prefix, takes
\* matches[0], stats it and removes it if empty (config.go:254-284)
ExitOk(r) ==
    /\ pc[r] = "wait"
    /\ proc[r] = "running"
    /\ proc' = [proc EXCEPT ![r] = OutputReturns(@, "none")]
    /\ LET matches == Glob(tempDir, ts[r]) IN
         IF NotFound(matches)
           THEN Return(r, "DownloadFailed", tempDir, NoFile)
           ELSE LET f == FirstMatch(matches) IN
                \E empty \in BOOLEAN :
                  IF empty
                    THEN Return(r, "DownloadFailed",
                                Remove(tempDir, ts[r], f), NoFile)
                    ELSE /\ tempFile' = [tempFile EXCEPT ![r] = f]
                         /\ pc' = [pc EXCEPT ![r] = "stream"]
                         /\ canceled' = [canceled EXCEPT ![r] = FALSE]
                         /\ UNCHANGED <<held, tempDir, url, ts, status,
                                        rel, removes>>
    /\ UNCHANGED <<capacity, acq>>
    /\ UNCHANGED <<anVars, hdVars>>

\* ServeHTTP after DownloadToFile returned a file (download.go:90-140):
\* os.Open, file.Stat, io.Copy, each of which may fail, then the defers
Stream(r) ==
    /\ pc[r] = "stream"
    /\ \E site \in {"OpenFailed", "StatFailed", "StreamFailed", "Complete"} :
         Return(r, site, tempDir, tempFile[r])
    /\ UNCHANGED <<capacity, acq, proc>>
    /\ UNCHANGED <<anVars, hdVars>>

\* a client that was turned away before admission sends its next request;
\* an admitted slot serves one request, so at most NumReqs processes run
Retry(r) ==
    /\ pc[r] = "done"
    /\ acq[r] = 0
    /\ pc' = [pc EXCEPT ![r] = "idle"]
    /\ status' = [status EXCEPT ![r] = 0]
    /\ UNCHANGED <<capacity, held, tempDir, url, canceled, ts, proc, tempFile,
                   acq, rel, removes>>
    /\ UNCHANGED <<anVars, hdVars>>

Next ==
    \/ \E r \in Reqs : ServeHTTP(r)
    \/ \E r \in Reqs : MkdirFails(r)
    \/ \E r \in Reqs : ValidateFails(r)
    \/ \E r \in Reqs : StartFails(r)
    \/ \E r \in Reqs : Start(r)
    \/ \E r \in Reqs : ProcWrite(r)
    \/ \E r \in Reqs : Cancel(r)
    \/ \E r \in Reqs : Kill(r)
    \/ \E r \in Reqs : ExitFail(r)
    \/ \E r \in Reqs : ExitOk(r)
    \/ \E r \in Reqs : Stream(r)
    \/ \E r \in Reqs : Retry(r)

Spec == Init /\ [][Next]_vars

\* The watcher goroutine that exec.CommandContext starts is scheduled by the
\* Go runtime: once the context is done it kills the process.  Nothing is
\* assumed of the external process, of the clients or of the handlers.
FairSpec == Spec /\ \A r \in Reqs : WF_vars(Kill(r))

TypeOK ==
    /\ capacity \in 1..NumReqs
    /\ held \in Int
    /\ tempDir \subseteq Paths
    /\ pc \in [Reqs -> {"idle", "admitted", "wait", "stream", "done"}]
    /\ url \in [Reqs -> {"none", "invalid_url", "unsupported_url", "ok"}]
    /\ canceled \in [Reqs -> BOOLEAN]
    /\ ts \in [Reqs -> Stamps \cup {NoStamp}]
    /\ proc \in [Reqs -> {"none", "running", "killed"}]
    /\ tempFile \in [Reqs -> Names \cup {NoFile}]
    /\ status \in [Reqs -> {0, 200, 400, 405, 500, 503}]
    /\ acq \in [Reqs -> Nat]
    /\ rel \in [Reqs -> Nat]
    /\ removes \in [Reqs -> Nat]

\* ------------------------------------------------------- analysis actions
\* sequences of at most n elements of S
SeqsUpTo(S, n) == UNION {[1..k -> S] : k \in 0..n}

\* an analysis whose tool run printed the raw encodings ytFormats
AnalyzeInit ==
    /\ capacity = 1
    /\ NoDownload
    /\ NoHeaders
    /\ ytFormats \in SeqsUpTo(RawSet, MaxRaw)
    /\ formats = <<>>
    /\ best = <<>>
    /\ simplified = <<>>
    /\ apc = "raw"

\* YtDlpService.Analyze: formats := s.parseFormats(info.Formats)
Analyze ==
    /\ apc = "raw"
    /\ formats' = parseFormats(ytFormats)
    /\ apc' = "parsed"
    /\ UNCHANGED <<ytFormats, best, simplified, dlVars, hdVars>>

\* AnalyzeHandler.ServeHTTP: h.ytdlp.GetBestFormats(info.Formats)
Rank ==
    /\ apc = "parsed"
    /\ best' = GetBestFormats(formats)
    /\ apc' = "ranked"
    /\ UNCHANGED <<ytFormats, formats, simplified, dlVars, hdVars>>

\* AnalyzeHandler.ServeHTTP: the fallback and the response
Respond ==
    /\ apc = "ranked"
    /\ simplified' = Simplified(best, formats)
    /\ apc' = "responded"
    /\ UNCHANGED <<ytFormats, formats, best, dlVars, hdVars>>

AnalyzeNext == Analyze \/ Rank \/ Respond

AnalyzeSpec == AnalyzeInit /\ [][AnalyzeNext]_vars

\* descriptors GetBestFormats is run on by itself: the ones parseFormats
\* makes of single raw encodings
Descriptors ==
    {parseFormats(<<f>>)[1] :
       f \in {Raw140, Raw251, Raw250, Raw139, Raw18, Raw135, Raw136, Raw137,
              RawV}}

\* GetBestFormats on a sequence of distinct descriptors
RankInit ==
    /\ capacity = 1
    /\ NoDownload
    /\ NoHeaders
    /\ ytFormats = <<>>
    /\ formats \in {s \in SeqsUpTo(Descriptors, MaxFormats) :
                      \A i, j \in 1..Len(s) : i # j => s[i] # s[j]}
    /\ best = <<>>
    /\ simplified = <<>>
    /\ apc = "parsed"

RankNext == Rank \/ Respond

RankSpec == RankInit /\ [][RankNext]_vars

\* -------------------------------------------------------- header actions
\* ServeHTTP has the name of a materialized file; the host has some table
HeaderInit ==
    /\ capacity = 1
    /\ NoDownload
    /\ NoAnalysis
    /\ filename \in FileNames
    /\ mimeTypes \in SUBSET KnownTypes
    /\ contentType = "unset"

\* w.Header().Set("Content-Type", contentType) (download.go:113-126)
SetHeaders ==
    /\ contentType = "unset"
    /\ contentType' = ContentType(filename, mimeTypes)
    /\ UNCHANGED <<filename, mimeTypes, dlVars, anVars>>

HeaderSpec == HeaderInit /\ [][SetHeaders]_vars

\* ------------------------------------------------------------ vocabulary
Running == {r \in Reqs : proc[r] = "running"}

\* the request is between its TryAcquire and its deferred Release
Holding(r) == pc[r] \in {"admitted", "wait", "stream"}

\* the step in which a request enters ServeHTTP
Arrives(r) == pc[r] = "idle" /\ pc'[r] # "idle"

\* the step in which the handler of an admitted request returns
Returns(r) == Holding(r) /\ pc'[r] = "done"

\* no other request has been admitted so far, so every path in the scratch
\* directory was written by the process of r
OnlyJob(r) == \A q \in Reqs \ {r} : acq[q] = 0

\* C1: the number of held permits stays within 0..capacity and at most
\* capacity external processes run at the same time.
C1_PermitsBounded ==
    /\ held \in 0..capacity
    /\ SemAvailable(held, capacity) \in 0..capacity
    /\ Cardinality(Running) <= capacity
    /\ Cardinality(Running) <= held

C1_Witness ==
    /\ capacity >= 2
    /\ held = capacity
    /\ Cardinality(Running) = capacity

\* C2: when no admitted request is in flight, no permit is held; a finished
\* request released exactly as often as it acquired (at most once), and a
\* request rejected before or at the gate released nothing.
C2_PermitsBalance ==
    /\ (\A r \in Reqs : ~Holding(r)) => held = 0
    /\ held = Cardinality({r \in Reqs : Holding(r)})
    /\ \A r \in Reqs :
         pc[r] = "done" =>
           /\ acq[r] <= 1
           /\ rel[r] = acq[r]
           /\ status[r] \in {405, 400, 503} => rel[r] = 0
           /\ status[r] \in {500, 200} => rel[r] = 1

C2_Witness ==
    /\ \A r \in Reqs : pc[r] = "done"
    /\ held = 0
    /\ \E r, q \in Reqs :
         /\ status[r] = 200 /\ rel[r] = 1
         /\ status[q] = 500 /\ proc[q] = "killed" /\ rel[q] = 1

\* C3: with capacity 1, a request's TryAcquire succeeds only while no other
\* request is between its acquire and its release, and it fails only while
\* another request is.
C3_CapacityOne ==
    [][capacity = 1 =>
         \A r \in Reqs :
           Arrives(r) =>
             /\ pc'[r] = "admitted" => ~\E q \in Reqs \ {r} : Holding(q)
             /\ status'[r] = 503 => \E q \in Reqs \ {r} : Holding(q)]_vars

C3_Witness ==
    /\ capacity = 1
    /\ \E r, q \in Reqs :
         /\ Holding(r)
         /\ pc[q] = "done" /\ status[q] = 503

\* C4: a request that arrives while no permit is free ends in the same step
\* (it is never admitted and never waits), with the server-busy answer
\* unless its parameters were already refused, and the step changes neither
\* the held permits nor the scratch directory nor any process.
C4_BusyRejected ==
    [][\A r \in Reqs :
         Arrives(r) =>
           /\ held >= capacity =>
                /\ pc'[r] = "done"
                /\ status'[r] \in {405, 400, 503}
           /\ status'[r] = 503 =>
                /\ held >= capacity
                /\ held' = held
                /\ tempDir' = tempDir
                /\ proc' = proc
                /\ acq'[r] = 0 /\ rel'[r] = 0]_vars

C4_Witness ==
    \E r \in Reqs :
      /\ pc[r] = "done" /\ status[r] = 503
      /\ proc[r] = "none"
      /\ held = capacity
      /\ Running # {}

\* C5: when the handler of a request that was canceled while its process
\* ran returns, no path is left under the job's prefix (stated for a job
\* that is the only one so far: every path there is its own).
C5_CanceledLeavesNoFile ==
    [][\A r \in Reqs :
         Returns(r) /\ canceled[r] /\ OnlyJob(r) =>
           Glob(tempDir', ts[r]) = {}]_vars

\* C6: a handler that got a file from the orchestrator removes it exactly
\* once: not before it returns, and when it returns, from whichever point,
\* the file is gone and one os.Remove was made.
C6_RemovedOnce ==
    [][\A r \in Reqs :
         /\ pc[r] = "stream" => tempFile[r] # NoFile /\ removes[r] = 0
         /\ Returns(r) /\ tempFile[r] # NoFile =>
              /\ <<ts[r], tempFile[r]>> \notin tempDir'
              /\ removes'[r] = 1
         /\ Returns(r) /\ tempFile[r] = NoFile => removes'[r] = 0]_vars

C6_Witness ==
    \E r \in Reqs :
      pc[r] = "done" /\ status[r] = 200 /\ removes[r] = 1 /\ rel[r] = 1

\* C7: when DownloadToFile fails after its process has ended by itself (the
\* request not canceled), no path is left under the job's prefix (stated,
\* as C5, for a job that is the only one so far).
C7_ToolFailureLeavesNoFile ==
    [][\A r \in Reqs :
         /\ pc[r] = "wait" /\ pc'[r] = "done"
         /\ ~canceled[r] /\ OnlyJob(r)
         => Glob(tempDir', ts[r]) = {}]_vars

\* C8: after a successful exit the orchestrator returns a file only when
\* exactly one path matches the prefix pattern, and with zero or several
\* matches it fails.
C8_ExactlyOneMatch ==
    [][\A r \in Reqs :
         ExitOk(r) =>
           LET k == Cardinality(Glob(tempDir, ts[r])) IN
             /\ pc'[r] = "stream" => k = 1
             /\ k # 1 => pc'[r] = "done" /\ status'[r] = 500]_vars

\* C9: two jobs in flight never have the same prefix.
C9_DistinctPrefixes ==
    \A r, q \in Reqs :
      r # q /\ ts[r] # NoStamp /\ ts[q] # NoStamp => ts[r] # ts[q]

\* C10: no external process of a request is running once its handler has
\* returned (and its permit is back), and a process whose request is
\* canceled while it runs stops running.
C10_NoOrphanProcess ==
    /\ [](\A r \in Reqs : pc[r] \in {"idle", "done"} => proc[r] # "running")
    /\ \A r \in Reqs :
         (canceled[r] /\ proc[r] = "running") ~> (proc[r] # "running")

C10_Witness ==
    \E r \in Reqs :
      pc[r] = "done" /\ proc[r] = "killed" /\ status[r] = 500 /\ rel[r] = 1












\* --------------------------------------------------- analysis vocabulary
\* parseFormats has returned
Parsed == apc \in {"parsed", "ranked", "responded"}

\* GetBestFormats has returned
Ranked == apc \in {"ranked", "responded"}

\* the (kind, quality label, container) triple of a descriptor
Triple(d) == <<d.Type, d.Quality, d.Ext>>

\* the raw encoding has a video track
HasVideo(f) == f.VCodec # StrNone

\* C11: the output of parseFormats holds no two descriptors with the same
\* (kind, quality label, container) triple.
C11_NoDuplicateTriple ==
    Parsed =>
      \A i, j \in 1..Len(formats) :
        i # j => Triple(formats[i]) # Triple(formats[j])

\* two raw encodings of the input are given the same triple, one is kept
C11_Witness ==
    /\ apc = "parsed"
    /\ \E i, j \in 1..Len(ytFormats) :
         /\ i < j
         /\ ytFormats[i].FormatID # ytFormats[j].FormatID
         /\ ytFormats[i].Ext = ytFormats[j].Ext
         /\ ~Classify(ytFormats[i]).skip /\ ~Classify(ytFormats[j]).skip
         /\ Classify(ytFormats[i]) = Classify(ytFormats[j])
         /\ \E d \in 1..Len(formats) : formats[d].ID = ytFormats[i].FormatID

\* C12: every video descriptor in the output of parseFormats has container
\* mp4, and no raw encoding with a video track and another container is
\* the source of any descriptor of the output.
C12_VideoOnlyMp4 ==
    Parsed =>
      /\ \A d \in 1..Len(formats) :
           formats[d].Type = StrVideo => formats[d].Ext = StrMp4
      /\ \A i \in 1..Len(ytFormats) :
           HasVideo(ytFormats[i]) /\ ytFormats[i].Ext # StrMp4 =>
             \A d \in 1..Len(formats) :
               formats[d].ID # ytFormats[i].FormatID

\* a video in webm is in the input and the output is not empty
C12_Witness ==
    /\ apc = "parsed"
    /\ formats # <<>>
    /\ \E i \in 1..Len(ytFormats) :
         /\ HasVideo(ytFormats[i]) /\ ytFormats[i].Ext # StrMp4
         /\ ytFormats[i].FormatID # <<>>
         /\ ytFormats[i].Height > 0

\* --------------------------------------------------- ranking vocabulary
\* positions of the audio descriptors of the input
Audios == {i \in 1..Len(formats) : formats[i].Type = StrAudio}

\* the tier an offer is labelled with, 0 if with none
TierOf(d) ==
    IF \E k \in 1..Len(resolutions) : HasPrefix(d.Quality, resLabels(resolutions[k]))
      THEN resolutions[CHOOSE k \in 1..Len(resolutions) :
                         HasPrefix(d.Quality, resLabels(resolutions[k]))]
      ELSE 0

\* the (kind, quality-tier) signature of an offer
Signature(d) == <<d.Type, TierOf(d)>>

\* the signatures of the offers of the output, in order
Signatures == [i \in 1..Len(best) |-> Signature(best[i])]

\* C13: the output of GetBestFormats holds at most one best-audio offer
\* and, for each tier, at most one merged and one video-only offer, nothing
\* else, so at most 9 entries, and no two entries share a signature.
C13_AtMostNine ==
    Ranked =>
      LET sigs == Signatures
          Offers(kind, tier) == {i \in 1..Len(sigs) : sigs[i] = <<kind, tier>>}
      IN /\ Cardinality(Offers(StrAudio, 0)) <= 1
         /\ \A k \in 1..Len(resolutions) :
              /\ Cardinality(Offers(StrVideo, resolutions[k])) <= 1
              /\ Cardinality(Offers(StrVideoOnly, resolutions[k])) <= 1
         /\ \A i \in 1..Len(sigs) :
              \/ sigs[i] = <<StrAudio, 0>>
              \/ /\ sigs[i][1] \in {StrVideo, StrVideoOnly}
                 /\ sigs[i][2] # 0
         /\ Len(best) <= 1 + 2 * Len(resolutions)
         /\ Len(best) <= 9
         /\ \A i, j \in 1..Len(sigs) : i # j => sigs[i] # sigs[j]

\* all nine offers are made: a best audio and both offers of every tier
C13_Witness ==
    /\ Ranked
    /\ Len(best) = 9
    /\ Audios # {}
    /\ \A k \in 1..Len(resolutions) :
         \E i \in 1..Len(formats) : TierMatch(formats[i], resolutions[k])

\* the bitrates GetBestFormats reads from the qualities of the descriptors
Rates == [i \in 1..Len(formats) |-> extractBitrate(formats[i].Quality)]

\* a quality label made of a decimal number and "kbps"
Numeric(quality) ==
    /\ HasSuffix(quality, StrKbps)
    /\ Len(quality) > Len(StrKbps)
    /\ \A k \in 1..(Len(quality) - Len(StrKbps)) : DigitVal(quality[k]) >= 0

\* the audio the claims call the best one: of the highest of the bitrates,
\* and the earliest of those
IsBestAudio(b, rates) ==
    /\ b \in Audios
    /\ \A j \in Audios :
         rates[j] <= rates[b] /\ (rates[j] = rates[b] => b <= j)

\* its position, 0 if there is no audio
BestAudioAt(rates) ==
    IF Audios = {} THEN 0 ELSE CHOOSE b \in Audios : IsBestAudio(b, rates)

\* C18: the best audio is the audio descriptor whose parsed bitrate is
\* highest, a label that is not a number counting as 0 and the earliest of
\* equal ones winning; without audio descriptors no best-audio offer is made.
C18_BestAudio ==
    Ranked =>
      LET rates == Rates IN
      /\ Audios = {} => \A i \in 1..Len(best) : best[i].Type # StrAudio
      /\ Audios # {} =>
           \E b \in Audios :
             /\ IsBestAudio(b, rates)
             /\ best[1].Type = StrAudio
             /\ best[1].ID = formats[b].ID
             /\ \A i \in 2..Len(best) : best[i].Type # StrAudio
      /\ \A i \in Audios : ~Numeric(formats[i].Quality) => rates[i] = 0
      /\ \A i \in Audios :
           Numeric(formats[i].Quality) =>
             Itoa(rates[i]) \o StrKbps = formats[i].Quality

\* two audios of the highest bitrate and one without a number: the earlier
\* of the two is offered
C18_Witness ==
    /\ Ranked
    /\ \E i, j, k \in Audios :
         /\ i < j
         /\ IsBestAudio(i, Rates)
         /\ Rates[j] = Rates[i]
         /\ ~Numeric(formats[k].Quality)
         /\ best[1].ID = formats[i].ID
         /\ best[1].ID # formats[j].ID

\* the position of the first video descriptor of a tier, 0 if there is none
FirstVideo(res) ==
    LET hits == {i \in 1..Len(formats) : TierMatch(formats[i], res)} IN
    IF hits = {} THEN 0 ELSE CHOOSE i \in hits : \A j \in hits : i <= j

\* identifier, kind and size of an offer
Offer(d) == [ID |-> d.ID, Type |-> d.Type, Size |-> d.Size]

\* the offers the claim expects for a tier, a being the position of the
\* best audio
ExpectedTier(res, a) ==
    LET v == FirstVideo(res) IN
    IF v = 0 THEN <<>>
    ELSE (IF a # 0
            THEN <<[ID |-> formats[v].ID \o <<"+">> \o formats[a].ID,
                    Type |-> StrVideo,
                    Size |-> formats[v].Size + formats[a].Size]>>
            ELSE <<>>)
         \o <<[ID |-> formats[v].ID, Type |-> StrVideoOnly,
               Size |-> formats[v].Size]>>

\* the offers the claim expects: the best audio, then the tiers ascending
Expected ==
    LET a == BestAudioAt(Rates) IN
    (IF a # 0 THEN <<Offer(formats[a])>> ELSE <<>>)
    \o ExpectedTier(360, a) \o ExpectedTier(480, a)
    \o ExpectedTier(720, a) \o ExpectedTier(1080, a)

\* C19: for each tier in ascending order only the first video descriptor
\* whose quality starts with the number of the tier is used; a merged offer
\* (identifier video "+" audio, size the sum of the two) is made exactly when
\* a best audio exists and is followed by the video-only offer with the
\* identifier of the video; the best audio comes first.
C19_TierOffers ==
    Ranked => [i \in 1..Len(best) |-> Offer(best[i])] = Expected

\* a tier with two matching videos, a best audio, and a tier without a video
C19_Witness ==
    /\ Ranked
    /\ Audios # {}
    /\ \E res \in {360, 480, 720, 1080} :
         \E i, j \in 1..Len(formats) :
           /\ i < j
           /\ TierMatch(formats[i], res) /\ TierMatch(formats[j], res)
           /\ \E k \in 1..(Len(best) - 1) :
                /\ best[k].Type = StrVideo
                /\ best[k].Size = formats[i].Size
                                    + formats[BestAudioAt(Rates)].Size
                /\ best[k + 1].Type = StrVideoOnly
                /\ best[k + 1].ID = formats[i].ID
    /\ \E res \in {360, 480, 720, 1080} : FirstVideo(res) = 0

\* --------------------------------------------------- the worked example
\* the descriptor of kind and quality that parseFormats made of raw id
HasDescriptor(id, kind, quality) ==
    \E i \in 1..Len(formats) :
      /\ formats[i].ID = id
      /\ formats[i].Type = kind
      /\ formats[i].Quality = quality

\* the offer with an identifier and a label in the answer
HasOffer(id, label) ==
    \E i \in 1..Len(simplified) :
      simplified[i].ID = id /\ simplified[i].Quality = label

\* what the example says but for the two labels
ExampleHolds(merged, videoOnly) ==
    /\ Len(formats) = 3
    /\ HasDescriptor(<<"1", "4", "0">>, StrAudio, <<"1", "2", "8", "k", "b", "p", "s">>)
    /\ HasDescriptor(<<"2", "5", "1">>, StrAudio, <<"1", "6", "0", "k", "b", "p", "s">>)
    /\ HasDescriptor(<<"1", "3", "7">>, StrVideo, <<"1", "0", "8", "0", "p">>)
    /\ simplified = best
    /\ Len(best) = 3
    /\ best[1].Type = StrAudio
    /\ best[1].ID = <<"2", "5", "1">>
    /\ HasOffer(<<"1", "3", "7", "+", "2", "5", "1">>, merged)
    /\ HasOffer(<<"1", "3", "7">>, videoOnly)

C20_Fallback ==
    apc = "responded" =>
      /\ best # <<>> => simplified = best
      /\ best = <<>> => simplified = formats
      /\ (simplified = formats /\ formats # <<>>) => best = <<>>
      /\ simplified = <<>> => formats = <<>>

\* descriptors without an audio and without a video of a tier: the
\* uncurated list is the answer
C20_Witness ==
    /\ apc = "responded"
    /\ best = <<>>
    /\ formats # <<>>
    /\ simplified = formats

\* ------------------------------------------------------------ input errors
\* the decoded URL of the request is one ValidateURL refuses
BadURL(r) == url[r] \in {"invalid_url", "unsupported_url"}

\* the step answers r with an error and starts no process for it
ErrorNoProcess(r, codes) ==
    /\ pc'[r] = "done"
    /\ status'[r] \in codes
    /\ proc[r] = "none"
    /\ proc'[r] = "none"

\* C16: a download request with an input error (no url parameter, bad URL
\* encoding, malformed URL, URL of an unsupported platform) is answered with
\* an error by its own handler and no external process is started for it:
\* the 400 of a missing or undecodable url is written in the step the
\* request arrives in, a request with a refused URL leaves the handler only
\* with an error status, and a process only ever runs for an accepted URL.
C16_InputErrors ==
    /\ [](\A r \in Reqs : proc[r] = "running" => url[r] = "ok")
    /\ [][\A r \in Reqs :
            /\ (Arrives(r) /\ status'[r] = 400) =>
                 /\ ErrorNoProcess(r, {400})
                 /\ held' = held
            /\ (BadURL(r) /\ pc'[r] # pc[r]) =>
                 ErrorNoProcess(r, {500})
            /\ BadURL(r) => proc'[r] = "none"]_vars

\* one request was answered 400 on arrival, another, with a malformed URL,
\* holds the permit and has started nothing
C16_Witness ==
    \E r, q \in Reqs :
      /\ pc[r] = "done" /\ status[r] = 400 /\ proc[r] = "none" /\ acq[r] = 0
      /\ pc[q] = "admitted" /\ BadURL(q) /\ proc[q] = "none"

\* ------------------------------------------------------------ content type
\* the response headers have been set
HeadersSet == contentType # "unset"

\* the types the table maps an extension to, as given or in lower case
Mapped(ext) == {e[2] : e \in {m \in mimeTypes : m[1] \in {ext, Lower(ext)}}}

\* C17 as stated: the content type is the type mapped from the extension of
\* the file, and the type of the mp4 container when the extension has no
\* mapping.
C17_TypeAsStated ==
    HeadersSet =>
      IF Mapped(Ext(filename)) # {}
        THEN contentType \in Mapped(Ext(filename))
        ELSE contentType = "video/mp4"

\* C17 amended: the content type is the type mapped from the extension of the
\* file, a name without extension being given ".mp4", and it is
\* "application/octet-stream" when that extension has no mapping.
C17_Type ==
    HeadersSet =>
      LET ext == IF Ext(filename) = <<>> THEN <<".", "m", "p", "4">>
                 ELSE Ext(filename)
      IN IF Mapped(ext) # {}
           THEN contentType \in Mapped(ext)
           ELSE contentType = "application/octet-stream"

\* a file with an extension the table does not map has been given its type
C17_Witness ==
    /\ HeadersSet
    /\ Ext(filename) # <<>>
    /\ Mapped(Ext(filename)) = {}
    /\ mimeTypes # {}
    /\ contentType = "application/octet-stream"

\* ------------------------------------------------------- order of events
\* the step starts the external process of r
Starts(r) == proc[r] # "running" /\ proc'[r] = "running"

\* the step gives back the permit of r
Releases(r) == rel'[r] = rel[r] + 1

\* r has its permit: acquired and not yet released
HasPermit(r) == acq[r] = 1 /\ rel[r] = 0

\* C21: within an admitted download the permit is acquired before the
\* external process is started, and it is released only once the process
\* has ended and the file the orchestrator returned, if any, is removed; a
\* handler streams only after its process has ended; so when no permit is
\* held no external process runs, and the step that gives back the last
\* permit leaves no file of the job that streamed.
C21_Ordering ==
    /\ [](held = 0 => Running = {})
    /\ [](\A r \in Reqs :
            /\ proc[r] = "running" => HasPermit(r)
            /\ pc[r] = "stream" => HasPermit(r) /\ proc[r] # "running")
    /\ [][\A r \in Reqs :
            /\ Starts(r) => HasPermit(r) /\ held >= 1 /\ held' = held
            /\ Releases(r) =>
                 /\ HasPermit(r)
                 /\ proc'[r] # "running"
                 /\ held' = held - 1
                 /\ tempFile[r] # NoFile =>
                      /\ <<ts[r], tempFile[r]>> \notin tempDir'
                      /\ removes'[r] = 1
       ]_vars

\* a job went through all of it: permit, process, stream, removal, release;
\* no permit is held, nothing runs and the directory is empty
C21_Witness ==
    /\ held = 0
    /\ Running = {}
    /\ tempDir = {}
    /\ \E r \in Reqs :
         /\ pc[r] = "done" /\ status[r] = 200
         /\ acq[r] = 1 /\ rel[r] = 1 /\ removes[r] = 1
         /\ proc[r] = "none"
====
